---- MODULE Spec2Model ----
(***************************************************************************)
(* Cross-account Redshift backup: the three poll-until-terminal wait loops *)
(*   AcaRedshiftBackupLambda.wait_for_snapshot_completion  (lambda)        *)
(*   RedshiftSnapshotDemo._wait_for_snapshot_completion    (native)        *)
(*   AWSBackupDemo.wait_for_backup_completion              (backup)        *)
(* and their callers lambda_handler, native main and backup main.          *)
(* Time is in seconds.  The cloud control plane is the environment: every  *)
(* status query answers with any response of the flow's response set.      *)
(***************************************************************************)
EXTENDS Integers, Sequences, FiniteSets, TLC

VARIABLES
    prog,              \* entry point that is running
    pc,                \* position in the running program
    now,               \* time.time(), seconds since the program started
    lat,               \* seconds one cloud call takes in this run
    event,             \* lambda_handler's event
    handle,            \* snapshot_identifier / job_id being tracked
    max_wait_seconds,  \* max_wait_seconds / timeout of the running wait
    start_time,        \* start_time of the running wait
    nq,                \* status queries issued by the wait
    ns,                \* time.sleep calls made by the wait
    qstart,            \* elapsed time at which the last status query started
    last,              \* response of the last status query
    seen,              \* classes of the responses before the last one
    wres,              \* how the wait ended: returned value or raised exception
    calls,             \* cloud calls issued so far, per API operation
    queried,           \* handles the status queries were issued for
    snaps,             \* manual snapshots in the source account
    result,            \* lambda_handler's returned dict
    report,            \* what a script's main printed last / how it ended
    defaulted,         \* the running wait was called without its max-wait argument
    delete_requests,   \* snapshots delete_cluster_snapshot was called for
    prev,              \* the earlier wait of a test that waits twice on one handle
    pair,              \* two waits running side by side, each with its own locals
    confirm_text,      \* dashboard: the text typed into the confirmation input
    cleanup_runs       \* dashboard: executions of ./cleanup.sh

waitVars == <<max_wait_seconds, start_time, nq, ns, qstart, last, seen, wres, queried,
             defaulted>>
harnessVars == <<prev, pair, confirm_text, cleanup_runs>>
vars == <<prog, pc, now, lat, event, handle, max_wait_seconds, start_time, nq, ns,
          qstart, last, seen, wres, calls, queried, snaps, result, report,
          defaulted, delete_requests, prev, pair, confirm_text, cleanup_runs>>

----------------------------------------------------------------------------
(* Bounds of the model *)

\* a test waits on one handle up to MaxWaitCalls times
MaxWaitCalls == 2
\* a cloud call takes 0..MaxLatency seconds
MaxLatency == 1
\* directly called waits get timeouts of up to MaxPolls intervals of 30 s
MaxPolls == 3
\* directly called Lambda waits get max_wait_minutes in 0..MaxMinutes
MaxMinutes == 2

----------------------------------------------------------------------------
(* Program constants *)

\* wait_for_snapshot_completion(..., max_wait_minutes: int = 15)
DefaultMaxWaitMinutes == 15
\* lambda_handler: wait_for_snapshot_completion(snapshot_id, max_wait_minutes=10)
HandlerMaxWaitMinutes == 10
\* _wait_for_snapshot_completion(..., timeout: int = 1800)
NativeDefaultTimeout == 1800
\* wait_for_backup_completion(..., timeout: int = 3600)
BackupDefaultTimeout == 3600
\* time.sleep(30) in both snapshot waits
SnapshotSleep == 30
\* time.sleep(60) in the backup wait
BackupSleep == 60
\* retention_days = event.get('retention_days', 7)
DefaultRetentionDays == 7

Flows == {"lambda", "native", "backup"}

\* which wait loop an entry point runs
FlowOf(p) ==
    CASE p \in {"lambda_wait", "lambda_handler"} -> "lambda"
      [] p \in {"native_wait", "native_main"}    -> "native"
      [] OTHER                                   -> "backup"

\* every flow sleeping a minute, as the backup wait does
IntervalMinute(flow) == BackupSleep

\* the argument of time.sleep in the wait loop of a flow
Interval(flow) == IF flow = "backup" THEN BackupSleep ELSE SnapshotSleep

----------------------------------------------------------------------------
(* Responses of the status query *)

NoResponse == [kind |-> "none", err |-> "", Snapshots |-> <<>>, State |-> "", RecoveryPointArn |-> ""]

Raises(e) == [kind |-> "raise", err |-> e, Snapshots |-> <<>>, State |-> "", RecoveryPointArn |-> ""]

SnapshotsResp(ss) == [kind |-> "ok", err |-> "", Snapshots |-> ss, State |-> "", RecoveryPointArn |-> ""]

JobResp(st, arn) == [kind |-> "ok", err |-> "", Snapshots |-> <<>>, State |-> st, RecoveryPointArn |-> arn]

\* what describe_cluster_snapshots(SnapshotIdentifier=...) can answer
DescribeSnapshotsResponses ==
    {Raises("Throttling"), Raises("ClusterSnapshotNotFound"), SnapshotsResp(<<>>)}
        \cup {SnapshotsResp(<<[Status |-> s]>>) :
                 s \in {"creating", "final snapshot", "available", "failed"}}

\* what describe_backup_job(BackupJobId=...) can answer
DescribeBackupJobResponses ==
    {Raises("Throttling"), Raises("ResourceNotFoundException")}
        \cup {JobResp(s, "") : s \in {"RUNNING", "PARTIAL", "FAILED", "ABORTED", "EXPIRED"}}
        \cup {JobResp("COMPLETED", a) : a \in {"arn:rp-1", "arn:rp-2"}}

Responses(flow) ==
    IF flow = "backup" THEN DescribeBackupJobResponses ELSE DescribeSnapshotsResponses

----------------------------------------------------------------------------
(* The body of the wait loops *)

Return(v) == [ctl |-> "return", val |-> v]
Raise(m) == [ctl |-> "raise", val |-> m]
Sleep == [ctl |-> "sleep", val |-> ""]
Running == [ctl |-> "running", val |-> ""]

\* a try block whose 'available' branch has lost its return
SnapshotTryNoReturn(resp) ==
    IF resp.kind = "raise" THEN Raise(resp.err)
    ELSE IF resp.Snapshots # <<>> /\ resp.Snapshots[1].Status = "failed"
         THEN Raise("Snapshot creation failed")
         ELSE Sleep

\* a try block that gives up on an empty list or an unknown status
SnapshotTryStrict(resp) ==
    IF resp.kind = "raise" THEN Raise(resp.err)
    ELSE IF resp.Snapshots # <<>>
         THEN LET status == resp.Snapshots[1].Status
              IN  IF status = "available" THEN Return("True")
                  ELSE IF status = "failed" THEN Raise("Snapshot creation failed")
                  ELSE IF status = "creating" THEN Sleep
                  ELSE Return("False")
         ELSE Return("False")

\* the try block of a snapshot wait, given the response of the status query
SnapshotTry(resp) ==
    IF resp.kind = "raise" THEN Raise(resp.err)
    ELSE IF resp.Snapshots # <<>>
         THEN LET status == resp.Snapshots[1].Status
              IN  IF status = "available" THEN Return("True")
                  ELSE IF status = "failed" THEN Raise("Snapshot creation failed")
                  ELSE Sleep
         ELSE Sleep

\* f"Backup job failed with status: {status}"
FailedMessage(status) ==
    CASE status = "FAILED"  -> "Backup job failed with status: FAILED"
      [] status = "ABORTED" -> "Backup job failed with status: ABORTED"
      [] OTHER              -> "Backup job failed with status: EXPIRED"

\* the try block of the backup wait
BackupTry(resp) ==
    IF resp.kind = "raise" THEN Raise(resp.err)
    ELSE LET status == resp.State
         IN  IF status = "COMPLETED" THEN Return(resp.RecoveryPointArn)
             ELSE IF status \in {"FAILED", "ABORTED", "EXPIRED"}
                  THEN Raise(FailedMessage(status))
                  ELSE Sleep

TryBody(flow, resp) == IF flow = "backup" THEN BackupTry(resp) ELSE SnapshotTry(resp)

\* an except clause that logs and raises again
ExceptClauseReraise(flow, x) == x

\* an except clause that lets a not-found error of the status query through
ExceptClauseNotFound(flow, x) ==
    IF x.ctl = "raise" /\ x.val \notin {"ClusterSnapshotNotFound", "ResourceNotFoundException"}
    THEN Sleep ELSE x

\* `except Exception as e:` around the try block: log, sleep, loop again
ExceptClause(flow, x) == IF x.ctl = "raise" THEN Sleep ELSE x

\* sleeps that grow with the number of sleeps already taken (a linear backoff)
SleepSecondsBackoff(flow, n) == Interval(flow) * (n + 1)

\* the seconds slept after the n-th sleep of a wait: `time.sleep(30)` (60 in
\* the backup flow), the same literal after the try body and in the except
\* clause, at every iteration
SleepSeconds(flow, n) == Interval(flow)

\* one pass through the loop body
Iteration(flow, resp) == ExceptClause(flow, TryBody(flow, resp))

\* a loop condition that is off by one: <= for <
DeadlineOpenInclusive(t, start, max) == t - start <= max

\* a loop without a deadline, `while True`
DeadlineOpenForever(t, start, max) == t - start < max \/ t - start >= max

\* the loop condition `time.time() - start_time < max_wait`
DeadlineOpen(t, start, max) == t - start < max

\* every flow raising on timeout, as the scripts do
AfterLoopRaises(flow) ==
    IF flow = "backup" THEN Raise("Timeout waiting for backup completion")
    ELSE Raise("Timeout waiting for snapshot completion")

\* what follows the loop once its condition is false
AfterLoop(flow) ==
    CASE flow = "lambda" -> Return("False")
      [] flow = "native" -> Raise("Timeout waiting for snapshot completion")
      [] OTHER           -> Raise("Timeout waiting for backup completion")

----------------------------------------------------------------------------
(* Observation vocabulary: how a response and an ending read in the terms  *)
(* of the tracker contract (success / failure / pending, Completed /       *)
(* Failed / TimedOut).                                                     *)

Class(flow, resp) ==
    CASE resp.kind = "none" -> "none"
      [] resp.kind = "raise" ->
            IF resp.err = "Throttling" THEN "transient" ELSE "permanent"
      [] flow = "backup" ->
            IF resp.State = "COMPLETED" THEN "success"
            ELSE IF resp.State \in {"FAILED", "ABORTED", "EXPIRED"} THEN "failure"
            ELSE "pending"
      [] OTHER ->
            IF resp.Snapshots = <<>> THEN "empty"
            ELSE IF resp.Snapshots[1].Status = "available" THEN "success"
            ELSE IF resp.Snapshots[1].Status = "failed" THEN "failure"
            ELSE "pending"

TimeoutMessages ==
    {"Timeout waiting for snapshot completion", "Timeout waiting for backup completion"}

Outcome(w) ==
    CASE w.ctl = "running" -> "none"
      [] w.ctl = "return"  -> IF w.val = "False" THEN "TimedOut" ELSE "Completed"
      [] OTHER             -> IF w.val \in TimeoutMessages THEN "TimedOut" ELSE "Failed"

\* classes of all responses the running wait has received
Observed == IF nq = 0 THEN {} ELSE seen \cup {Class(FlowOf(prog), last)}

----------------------------------------------------------------------------
(* Cloud calls *)

Ops == {"get_caller_identity", "describe_stacks",
        "create_cluster_snapshot", "describe_cluster_snapshots",
        "authorize_snapshot_access", "delete_cluster_snapshot",
        "restore_from_cluster_snapshot",
        "start_backup_job", "describe_backup_job",
        "list_recovery_points_by_backup_vault"}

MutatingOps == {"create_cluster_snapshot", "authorize_snapshot_access",
                "delete_cluster_snapshot", "restore_from_cluster_snapshot",
                "start_backup_job"}

Called(c, op) == [c EXCEPT ![op] = @ + 1]

\* a submission that is tried a second time when it raises
SubmitRetried(c, op, ok) == IF ok THEN Called(c, op) ELSE Called(Called(c, op), op)

\* the calls of a submission (create_cluster_snapshot, start_backup_job): one
\* call inside `try: ... except Exception: raise`, whether it succeeds or not
Submit(c, op, ok) == Called(c, op)

\* the status query a wait loop issues
StatusOp(flow) ==
    IF flow = "backup" THEN "describe_backup_job" ELSE "describe_cluster_snapshots"

\* a loop body that submits the operation again before it asks for the status
IterationCallsResubmit(c, flow) ==
    Called(Called(c, IF flow = "backup" THEN "start_backup_job" ELSE "create_cluster_snapshot"),
           StatusOp(flow))

\* the cloud calls of one pass through the loop body: the status query alone
IterationCalls(c, flow) == Called(c, StatusOp(flow))

----------------------------------------------------------------------------
(* The wait loops *)

\* a default in which the Lambda's minutes are taken for seconds
DefaultMaxWaitNoMinutes(f) ==
    CASE f = "lambda" -> DefaultMaxWaitMinutes
      [] f = "native" -> NativeDefaultTimeout
      [] OTHER        -> BackupDefaultTimeout

\* the maximum wait, in seconds, of a wait called without that argument
DefaultMaxWait(f) ==
    CASE f = "lambda" -> DefaultMaxWaitMinutes * 60
      [] f = "native" -> NativeDefaultTimeout
      [] OTHER        -> BackupDefaultTimeout

\* entry of a wait: start_time = time.time(), the budget in seconds
EnterWait(t, max, dflt) ==
    /\ defaulted' = dflt
    /\ start_time' = t
    /\ max_wait_seconds' = max
    /\ nq' = 0
    /\ ns' = 0
    /\ qstart' = 0
    /\ last' = NoResponse
    /\ seen' = {}
    /\ wres' = Running
    /\ queried' = {}

\* one iteration of `while time.time() - start_time < max_wait`: the status
\* query, the classification of its response, and the sleep if the loop goes on
WaitPoll ==
    /\ pc = "wait"
    /\ DeadlineOpen(now, start_time, max_wait_seconds)
    /\ \E resp \in Responses(FlowOf(prog)) :
         LET flow == FlowOf(prog)
             it == Iteration(flow, resp)
         IN  /\ calls' = IterationCalls(calls, flow)
             /\ queried' = queried \cup {handle}
             /\ nq' = nq + 1
             /\ qstart' = now - start_time
             /\ seen' = Observed
             /\ last' = resp
             /\ IF it.ctl = "sleep"
                THEN /\ now' = now + lat + SleepSeconds(flow, ns)
                     /\ ns' = ns + 1
                     /\ wres' = wres
                     /\ pc' = "wait"
                ELSE /\ now' = now + lat
                     /\ ns' = ns
                     /\ wres' = it
                     /\ pc' = "after_wait"
    /\ UNCHANGED <<prog, lat, event, handle, max_wait_seconds, start_time, defaulted,
                   snaps, result, report, harnessVars, delete_requests>>

\* the loop condition is false: the statement after the loop
WaitExpire ==
    /\ pc = "wait"
    /\ ~DeadlineOpen(now, start_time, max_wait_seconds)
    /\ wres' = AfterLoop(FlowOf(prog))
    /\ pc' = "after_wait"
    /\ UNCHANGED <<prog, now, lat, event, handle, max_wait_seconds, start_time, nq, ns,
                   qstart, last, seen, calls, queried, defaulted, snaps, result, report,
                   harnessVars, delete_requests>>

----------------------------------------------------------------------------
(* A wait called on its own *)

\* timeouts (seconds) a wait is called with directly
TestTimeouts == {0, 20, 70} \cup {SnapshotSleep * i : i \in 2..MaxPolls}

\* the max_wait argument of a directly called wait, in seconds
WaitArguments(p) ==
    CASE p = "lambda_wait" -> {m * 60 : m \in 0..MaxMinutes}
      [] p = "native_wait" -> TestTimeouts
      [] OTHER             -> TestTimeouts \cup {2 * BackupSleep}

CallWait ==
    /\ pc = "start"
    /\ prog \in {"lambda_wait", "native_wait", "backup_wait"}
    /\ \/ \E max \in WaitArguments(prog) : EnterWait(now, max, FALSE)
       \/ /\ prog = "lambda_wait"
          /\ EnterWait(now, DefaultMaxWait(FlowOf(prog)), TRUE)
    /\ pc' = "wait"
    /\ UNCHANGED <<prog, now, lat, event, handle, calls, snaps, result, report, harnessVars, delete_requests>>

\* the class all responses of a wait had, if they had one class
Uniform(S) ==
    IF S = {} THEN "none"
    ELSE IF Cardinality(S) = 1 THEN CHOOSE c \in S : TRUE
    ELSE "mixed"

\* a test waits again on a handle whose status was terminal throughout its
\* first wait: the same wait, for the same handle with the same budget
WaitAgain ==
    /\ pc = "after_wait"
    /\ prog \in {"lambda_wait", "native_wait", "backup_wait"}
    /\ prev.n + 1 < MaxWaitCalls
    /\ Uniform(Observed) \in {"success", "failure"}
    /\ prev' = [n |-> prev.n + 1, outcome |-> Outcome(wres), observed |-> Uniform(Observed)]
    /\ EnterWait(now, max_wait_seconds, defaulted)
    /\ pc' = "wait"
    /\ UNCHANGED <<prog, now, lat, event, handle, calls, snaps, result, report,
                   pair, confirm_text, cleanup_runs, delete_requests>>

\* a directly called wait hands its result to the test that called it
WaitReturns ==
    /\ pc = "after_wait"
    /\ prog \in {"lambda_wait", "native_wait", "backup_wait"}
    /\ pc' = "done"
    /\ UNCHANGED <<prog, now, lat, event, handle, waitVars, calls, snaps, result, report, harnessVars, delete_requests>>

----------------------------------------------------------------------------
(* Snapshots and the Lambda's event *)

LambdaPrefix == "aca-lambda-snapshot-"
DemoPrefix == "demo-snapshot-"

\* a snapshot identifier f"{prefix}{timestamp}"
SnapshotId(prefix, stamp) == <<prefix, stamp>>

\* snapshot_id.startswith(prefix)
StartsWith(id, prefix) == id[1] = prefix

\* retention_days * 24 * 3600
RetentionSeconds(days) == days * 24 * 3600

\* manual snapshots of the cluster that exist before the program runs
ExistingSnapshots ==
    {[id |-> SnapshotId(LambdaPrefix, 0 - RetentionSeconds(8)), ctime |-> 0 - RetentionSeconds(8)],
     [id |-> SnapshotId(DemoPrefix, 0 - RetentionSeconds(9)), ctime |-> 0 - RetentionSeconds(9)]}

\* events lambda_handler is invoked with; retention_days <<>> is a missing key
Events ==
    [target_account_id : {<<>>, <<"">>, <<"058264155998">>},
     retention_days : {<<>>, <<0>>},
     wait_for_completion : BOOLEAN]

NoEvent == [target_account_id |-> <<>>, retention_days |-> <<>>, wait_for_completion |-> FALSE]

\* event.get(key, default)
EventGet(v, default) == IF v = <<>> THEN default ELSE v[1]

\* Python's None
None == "<None>"

\* a test for None alone, which lets the empty string pass
NotIsNone(x) == x = None

\* `not x` for a string or None
Not(x) == x \in {None, ""}

NoResult ==
    [statusCode |-> 0, snapshot_id |-> <<>>, status |-> "", shared |-> "absent",
     cleaned_up_snapshots |-> -1, error |-> ""]

\* a handler without its `except Exception`: the error leaves no result
ErrorResultRaised(msg) == [NoResult EXCEPT !.error = msg]

\* the dict returned by lambda_handler's `except Exception as e:`
ErrorResult(msg) == [NoResult EXCEPT !.statusCode = 500, !.error = msg]

NoReport == [printed |-> "", msg |-> "", shared |-> "absent", listed |-> -1, restored |-> "absent"]

\* print(f"\nDemo failed: {str(e)}") in a script's main
DemoFailed(r, msg) == [r EXCEPT !.printed = "Demo failed", !.msg = msg]

Str(b) == IF b THEN "True" ELSE "False"

----------------------------------------------------------------------------
(* lambda_handler *)

\* parse the event; target_account_id is required
LH_Parse ==
    /\ pc = "start"
    /\ prog = "lambda_handler"
    /\ IF Not(EventGet(event.target_account_id, None))
       THEN /\ result' = ErrorResult("target_account_id is required")
            /\ pc' = "done"
       ELSE /\ result' = result
            /\ pc' = "lh_init"
    /\ UNCHANGED <<prog, now, lat, event, handle, waitVars, calls, snaps, report, harnessVars, delete_requests>>

\* backup_handler = AcaRedshiftBackupLambda()
LH_Construct ==
    /\ pc = "lh_init"
    /\ calls' = Called(calls, "get_caller_identity")
    /\ now' = now + lat
    /\ \E ok \in BOOLEAN :
         IF ok
         THEN /\ result' = result
              /\ pc' = "lh_create"
         ELSE /\ result' = ErrorResult("get_caller_identity failed")
              /\ pc' = "done"
    /\ UNCHANGED <<prog, lat, event, handle, waitVars, snaps, report, harnessVars, delete_requests>>

\* create_manual_snapshot, the result dict, and the branch on wait_for_completion
\* up to the entry of the wait
LH_Create ==
    /\ pc = "lh_create"
    /\ now' = now + lat
    /\ \E ok \in BOOLEAN :
         /\ calls' = Submit(calls, "create_cluster_snapshot", ok)
         /\ IF ok
            THEN LET snapshot_id == SnapshotId(LambdaPrefix, now)
                     res == [NoResult EXCEPT !.statusCode = 200, !.snapshot_id = snapshot_id,
                                             !.status = "snapshot_initiated"]
                 IN  /\ snaps' = snaps \cup {[id |-> snapshot_id, ctime |-> now]}
                     /\ handle' = snapshot_id
                     /\ IF event.wait_for_completion
                        THEN /\ EnterWait(now', HandlerMaxWaitMinutes * 60, FALSE)
                             /\ result' = res
                             /\ pc' = "wait"
                        ELSE /\ UNCHANGED waitVars
                             /\ result' = [res EXCEPT !.status = "snapshot_initiated_async"]
                             /\ pc' = "lh_cleanup"
            ELSE /\ result' = ErrorResult("create_cluster_snapshot failed")
                 /\ pc' = "done"
                 /\ UNCHANGED <<handle, waitVars, snaps>>
    /\ UNCHANGED <<prog, lat, event, report, harnessVars, delete_requests>>


\* a status that is left at its initial value when sharing fails
ShareStatusUnset(shared) == IF shared THEN "completed_and_shared" ELSE "snapshot_initiated"

\* result['status'] = 'completed_and_shared' if shared else 'completed_not_shared'
ShareStatus(shared) == IF shared THEN "completed_and_shared" ELSE "completed_not_shared"

\* a handler that shares after every wait that returned, completed or not
IfCompletedAlways(w) == w.ctl = "return"

\* `if completed:` on the value wait_for_snapshot_completion returned
IfCompleted(w) == w.ctl = "return" /\ w.val = "True"

\* `if completed:` share the snapshot, else report it as still in progress; an
\* exception of the wait reaches the handler's `except Exception`
LH_AfterWait ==
    /\ pc = "after_wait"
    /\ prog = "lambda_handler"
    /\ IF wres.ctl = "raise"
       THEN /\ result' = ErrorResult(wres.val)
            /\ pc' = "done"
            /\ UNCHANGED <<now, calls>>
       ELSE IF IfCompleted(wres)
       THEN /\ calls' = Called(calls, "authorize_snapshot_access")
            /\ now' = now + lat
            /\ \E shared \in BOOLEAN :
                 result' = [result EXCEPT !.shared = Str(shared),
                                          !.status = ShareStatus(shared)]
            /\ pc' = "lh_cleanup"
       ELSE /\ result' = [result EXCEPT !.status = "snapshot_in_progress"]
            /\ pc' = "lh_cleanup"
            /\ UNCHANGED <<now, calls>>
    /\ UNCHANGED <<prog, lat, event, handle, waitVars, snaps, report, harnessVars, delete_requests>>

\* a cleanup that has lost its test of the identifier's prefix
EligibleAnyPrefix(ss, t, retention_days) ==
    {s \in ss : s.ctime < t - RetentionSeconds(retention_days)}

\* snapshots cleanup_old_snapshots tries to delete at time t
Eligible(ss, t, retention_days) ==
    {s \in ss : /\ StartsWith(s.id, LambdaPrefix)
                /\ s.ctime < t - RetentionSeconds(retention_days)}

\* a count that is raised before delete_cluster_snapshot is called
DeletedCountAttempts(old, deleted) == Cardinality(old)

\* deleted_count: `deleted_count += 1` follows the delete call inside the
\* inner try, so only calls that did not raise are counted
DeletedCount(old, deleted) == Cardinality(deleted)

\* cleanup_old_snapshots and the return of the result
LH_Cleanup ==
    /\ pc = "lh_cleanup"
    /\ now' = now + lat
    /\ \E listed \in BOOLEAN :
         IF listed
         THEN LET old == Eligible(snaps, now', EventGet(event.retention_days, DefaultRetentionDays))
              IN  \E deleted \in SUBSET old :
                    /\ calls' = [calls EXCEPT !["describe_cluster_snapshots"] = @ + 1,
                                              !["delete_cluster_snapshot"] = @ + Cardinality(old)]
                    /\ delete_requests' = delete_requests \cup old
                    /\ snaps' = snaps \ deleted
                    /\ result' = [result EXCEPT !.cleaned_up_snapshots = DeletedCount(old, deleted)]
         ELSE /\ calls' = Called(calls, "describe_cluster_snapshots")
              /\ delete_requests' = delete_requests
              /\ snaps' = snaps
              /\ result' = [result EXCEPT !.cleaned_up_snapshots = 0]
    /\ pc' = "done"
    /\ UNCHANGED <<prog, lat, event, handle, waitVars, report, harnessVars>>

----------------------------------------------------------------------------
(* scripts/native_snapshot_demo.py: main *)

\* demo = RedshiftSnapshotDemo(...): an exception here is not caught by main
NM_Construct ==
    /\ pc = "start"
    /\ prog = "native_main"
    /\ calls' = [calls EXCEPT !["get_caller_identity"] = @ + 2]
    /\ now' = now + lat
    /\ \E ok \in BOOLEAN :
         IF ok
         THEN /\ report' = report
              /\ pc' = "nm_config"
         ELSE /\ report' = [report EXCEPT !.printed = "Traceback"]
              /\ pc' = "done"
    /\ UNCHANGED <<prog, lat, event, handle, waitVars, snaps, result, harnessVars, delete_requests>>

\* the subnet group from CloudFormation, or the fallback name
NM_Config ==
    /\ pc = "nm_config"
    /\ calls' = Called(calls, "describe_stacks")
    /\ now' = now + lat
    /\ pc' = "nm_create"
    /\ UNCHANGED <<prog, lat, event, handle, waitVars, snaps, result, report, harnessVars, delete_requests>>

\* create_manual_snapshot up to the entry of _wait_for_snapshot_completion
NM_Create ==
    /\ pc = "nm_create"
    /\ now' = now + lat
    /\ \E ok \in BOOLEAN :
         /\ calls' = Submit(calls, "create_cluster_snapshot", ok)
         /\ IF ok
            THEN LET snapshot_identifier == SnapshotId(DemoPrefix, now)
                 IN  /\ snaps' = snaps \cup {[id |-> snapshot_identifier, ctime |-> now]}
                     /\ handle' = snapshot_identifier
                     /\ EnterWait(now', DefaultMaxWait("native"), TRUE)
                     /\ report' = report
                     /\ pc' = "wait"
            ELSE /\ report' = DemoFailed(report, "create_cluster_snapshot failed")
                 /\ pc' = "done"
                 /\ UNCHANGED <<handle, waitVars, snaps>>
    /\ UNCHANGED <<prog, lat, event, result, harnessVars, delete_requests>>

\* the rest of create_manual_snapshot: an exception of the wait is printed and
\* raised again, and main prints "Demo failed"
NM_AfterWait ==
    /\ pc = "after_wait"
    /\ prog = "native_main"
    /\ IF wres.ctl = "raise"
       THEN /\ report' = DemoFailed(report, wres.val)
            /\ pc' = "done"
       ELSE /\ report' = report
            /\ pc' = "nm_share"
    /\ UNCHANGED <<prog, now, lat, event, handle, waitVars, calls, snaps, result, harnessVars, delete_requests>>

\* demo.share_snapshot_with_account(snapshot_id): the returned bool is dropped
NM_Share ==
    /\ pc = "nm_share"
    /\ calls' = Called(calls, "authorize_snapshot_access")
    /\ now' = now + lat
    /\ \E shared \in BOOLEAN : report' = [report EXCEPT !.shared = Str(shared)]
    /\ pc' = "nm_list"
    /\ UNCHANGED <<prog, lat, event, handle, waitVars, snaps, result, harnessVars, delete_requests>>

\* shared_snapshots = demo.list_shared_snapshots(): [] when the listing fails
NM_List ==
    /\ pc = "nm_list"
    /\ calls' = Called(calls, "describe_cluster_snapshots")
    /\ now' = now + lat
    /\ \E n \in 0..1 : report' = [report EXCEPT !.listed = n]
    /\ pc' = "nm_restore"
    /\ UNCHANGED <<prog, lat, event, handle, waitVars, snaps, result, harnessVars, delete_requests>>

\* `if shared_snapshots:` restore; then "Demo completed successfully"
NM_Restore ==
    /\ pc = "nm_restore"
    /\ IF report.listed > 0
       THEN /\ calls' = Called(calls, "restore_from_cluster_snapshot")
            /\ now' = now + lat
            /\ \E restored \in BOOLEAN :
                 report' = [report EXCEPT !.restored = Str(restored),
                                          !.printed = "Demo completed successfully"]
       ELSE /\ report' = [report EXCEPT !.printed = "Demo completed successfully"]
            /\ UNCHANGED <<now, calls>>
    /\ pc' = "done"
    /\ UNCHANGED <<prog, lat, event, handle, waitVars, snaps, result, harnessVars, delete_requests>>

----------------------------------------------------------------------------
(* scripts/aws_backup_demo.py: main *)

\* demo = AWSBackupDemo(...): an exception here is not caught by main
BM_Construct ==
    /\ pc = "start"
    /\ prog = "backup_main"
    /\ calls' = [calls EXCEPT !["get_caller_identity"] = @ + 2]
    /\ now' = now + lat
    /\ \E ok \in BOOLEAN :
         IF ok
         THEN /\ report' = report
              /\ pc' = "bm_config"
         ELSE /\ report' = [report EXCEPT !.printed = "Traceback"]
              /\ pc' = "done"
    /\ UNCHANGED <<prog, lat, event, handle, waitVars, snaps, result, harnessVars, delete_requests>>

\* the CloudFormation outputs; without them main returns 1
BM_Config ==
    /\ pc = "bm_config"
    /\ calls' = Called(calls, "describe_stacks")
    /\ now' = now + lat
    /\ \E ok \in BOOLEAN :
         IF ok
         THEN /\ report' = report
              /\ pc' = "bm_start"
         ELSE /\ report' = [report EXCEPT !.printed = "Could not get CloudFormation outputs"]
              /\ pc' = "done"
    /\ UNCHANGED <<prog, lat, event, handle, waitVars, snaps, result, harnessVars, delete_requests>>

\* start_backup_job, then the entry of wait_for_backup_completion
BM_Start ==
    /\ pc = "bm_start"
    /\ now' = now + lat
    /\ \E ok \in BOOLEAN :
         /\ calls' = Submit(calls, "start_backup_job", ok)
         /\ IF ok
            THEN /\ handle' = <<"backup-job-", now>>
                 /\ EnterWait(now', DefaultMaxWait("backup"), TRUE)
                 /\ report' = report
                 /\ pc' = "wait"
            ELSE /\ report' = DemoFailed(report, "start_backup_job failed")
                 /\ pc' = "done"
                 /\ UNCHANGED <<handle, waitVars>>
    /\ UNCHANGED <<prog, lat, event, snaps, result, harnessVars, delete_requests>>

\* recovery_point_arn = demo.wait_for_backup_completion(job_id), inside main's try
BM_AfterWait ==
    /\ pc = "after_wait"
    /\ prog = "backup_main"
    /\ IF wres.ctl = "raise"
       THEN /\ report' = DemoFailed(report, wres.val)
            /\ pc' = "done"
       ELSE /\ report' = report
            /\ pc' = "bm_list"
    /\ UNCHANGED <<prog, now, lat, event, handle, waitVars, calls, snaps, result, harnessVars, delete_requests>>

\* demo.list_recovery_points(vault_name), then "AWS Backup demo completed successfully"
BM_List ==
    /\ pc = "bm_list"
    /\ calls' = Called(calls, "list_recovery_points_by_backup_vault")
    /\ now' = now + lat
    /\ \E n \in 0..1 :
         report' = [report EXCEPT !.listed = n, !.printed = "Demo completed successfully"]
    /\ pc' = "done"
    /\ UNCHANGED <<prog, lat, event, handle, waitVars, snaps, result, harnessVars, delete_requests>>

----------------------------------------------------------------------------
(* streamlit_app.py: show_cleanup, one run of the page script per action *)

MaxCleanupRuns == 2

\* texts typed into "Type 'DELETE' to confirm cleanup:"
ConfirmTexts == {"", "delete", "DELETE", "DELETE "}

\* disabled=(confirm_text != "DELETE") of the Start Cleanup button
Disabled(text) == text # "DELETE"

\* a confirmation that ignores the case of the text
ConfirmedIgnoreCase(text) == text \in {"DELETE", "delete"}

\* `if confirm_text == "DELETE":` under the button
Confirmed(text) == text = "DELETE"

\* what run_cleanup shows for ./cleanup.sh: return code 0, another return
\* code, subprocess.TimeoutExpired, another exception
CleanupOutcomes ==
    {"Cleanup script executed successfully", "Cleanup script failed",
     "Cleanup timed out after 10 minutes", "Cleanup failed"}

\* One run of show_cleanup.  The text is what the text input holds in this
\* run; the button can only report a click when the page rendered by the
\* previous run showed it enabled, and the text may have been edited since.
SC_Run ==
    /\ prog = "show_cleanup"
    /\ pc \in {"start", "page"}
    /\ \E text \in ConfirmTexts, clicked \in BOOLEAN :
         /\ clicked => (pc = "page" /\ ~Disabled(confirm_text))
         /\ confirm_text' = text
         /\ IF clicked
            THEN IF Confirmed(text)
                 THEN /\ cleanup_runs < MaxCleanupRuns
                      /\ cleanup_runs' = cleanup_runs + 1
                      /\ \E out \in CleanupOutcomes :
                            report' = [NoReport EXCEPT !.printed = "Cleanup Progress", !.msg = out]
                 ELSE /\ cleanup_runs' = cleanup_runs
                      /\ report' = [NoReport EXCEPT !.printed = "Please type 'DELETE' to confirm"]
            ELSE /\ cleanup_runs' = cleanup_runs
                 /\ report' = NoReport
    /\ pc' = "page"
    /\ UNCHANGED <<prog, now, lat, event, handle, waitVars, calls, snaps, result,
                   prev, pair, delete_requests>>

----------------------------------------------------------------------------
(* Two waits on different handles, interleaved: a native snapshot wait and  *)
(* a backup-job wait, each in its own thread with its own locals.           *)

\* the locals of one wait: t is the time of the thread's next step, t0 the
\* time of the call, hist the responses its status queries were given
PairWait(f, at, max) ==
    [flow |-> f, pc |-> "call", t |-> at, t0 |-> at, start_time |-> 0, max |-> max,
     nq |-> 0, wres |-> Running, hist |-> <<>>]

\* the second wait is called with or after the first
PairInits ==
    {<<PairWait("native", 0, 2 * SnapshotSleep), PairWait("backup", at, max)>> :
        at \in {0, 10}, max \in {20, 2 * BackupSleep}}

\* thread i steps when no running thread is due earlier
Turn(i) == \A j \in DOMAIN pair : pair[j].pc = "done" \/ pair[i].t <= pair[j].t

\* a start time kept in one attribute that every wait assigns
PairEnterShared(pr, i) ==
    [j \in DOMAIN pr |->
        IF j = i THEN [pr[j] EXCEPT !.start_time = pr[i].t, !.pc = "wait"]
        ELSE [pr[j] EXCEPT !.start_time = pr[i].t]]

\* start_time = time.time(): a local of the call
PairEnter(pr, i) == [pr EXCEPT ![i].start_time = pr[i].t, ![i].pc = "wait"]

TW_Enter ==
    /\ prog = "two_waits"
    /\ \E i \in DOMAIN pair :
         /\ pair[i].pc = "call"
         /\ Turn(i)
         /\ pair' = PairEnter(pair, i)
    /\ pc' = "pair"
    /\ UNCHANGED <<prog, now, lat, event, handle, waitVars, calls, snaps, result, report,
                   prev, confirm_text, cleanup_runs, delete_requests>>

\* one pass through the loop body of thread i
TW_Poll ==
    /\ prog = "two_waits"
    /\ \E i \in DOMAIN pair :
         LET r == pair[i]
         IN  /\ r.pc = "wait"
             /\ Turn(i)
             /\ DeadlineOpen(r.t, r.start_time, r.max)
             /\ \E resp \in Responses(r.flow) :
                  LET it == Iteration(r.flow, resp)
                      q  == [r EXCEPT !.nq = @ + 1, !.hist = Append(@, resp)]
                  IN  /\ calls' = IterationCalls(calls, r.flow)
                      /\ pair' = [pair EXCEPT ![i] =
                            IF it.ctl = "sleep"
                            THEN [q EXCEPT !.t = @ + lat + SleepSeconds(r.flow, r.nq)]
                            ELSE [q EXCEPT !.t = @ + lat, !.wres = it, !.pc = "done"]]
    /\ UNCHANGED <<prog, pc, now, lat, event, handle, waitVars, snaps, result, report,
                   prev, confirm_text, cleanup_runs, delete_requests>>

\* the loop condition of thread i is false
TW_Expire ==
    /\ prog = "two_waits"
    /\ \E i \in DOMAIN pair :
         LET r == pair[i]
         IN  /\ r.pc = "wait"
             /\ Turn(i)
             /\ ~DeadlineOpen(r.t, r.start_time, r.max)
             /\ pair' = [pair EXCEPT ![i] = [r EXCEPT !.wres = AfterLoop(r.flow), !.pc = "done"]]
    /\ UNCHANGED <<prog, pc, now, lat, event, handle, waitVars, calls, snaps, result, report,
                   prev, confirm_text, cleanup_runs, delete_requests>>

----------------------------------------------------------------------------
(* The state machine *)

\* no earlier wait
NoPrev == [n |-> 0, outcome |-> "none", observed |-> "none"]

\* no waits side by side
NoPair == <<>>

Programs == {"lambda_wait", "native_wait", "backup_wait",
             "lambda_handler", "native_main", "backup_main", "show_cleanup",
             "two_waits"}

\* the handle a directly called wait is given
TestHandle(p) ==
    IF FlowOf(p) = "backup" THEN <<"backup-job-", 0>> ELSE SnapshotId(DemoPrefix, 0)

Init ==
    /\ prog \in Programs
    /\ pc = "start"
    /\ now = 0
    /\ lat \in 0..MaxLatency
    /\ event \in (IF prog = "lambda_handler" THEN Events ELSE {NoEvent})
    /\ handle = (IF prog \in {"lambda_wait", "native_wait", "backup_wait"}
                 THEN TestHandle(prog) ELSE <<>>)
    /\ max_wait_seconds = 0
    /\ start_time = 0
    /\ nq = 0
    /\ ns = 0
    /\ qstart = 0
    /\ last = NoResponse
    /\ seen = {}
    /\ wres = Running
    /\ calls = [op \in Ops |-> 0]
    /\ queried = {}
    /\ snaps = ExistingSnapshots
    /\ result = NoResult
    /\ report = NoReport
    /\ defaulted = FALSE
    /\ delete_requests = {}
    /\ prev = NoPrev
    /\ pair \in (IF prog = "two_waits" THEN PairInits ELSE {NoPair})
    /\ confirm_text = ""
    /\ cleanup_runs = 0

Next ==
    \/ CallWait
    \/ WaitPoll
    \/ WaitExpire
    \/ WaitReturns
    \/ WaitAgain
    \/ LH_Parse
    \/ LH_Construct
    \/ LH_Create
    \/ LH_AfterWait
    \/ LH_Cleanup
    \/ NM_Construct
    \/ NM_Config
    \/ NM_Create
    \/ NM_AfterWait
    \/ NM_Share
    \/ NM_List
    \/ NM_Restore
    \/ BM_Construct
    \/ BM_Config
    \/ BM_Start
    \/ BM_AfterWait
    \/ BM_List
    \/ SC_Run
    \/ TW_Enter
    \/ TW_Poll
    \/ TW_Expire

Spec == Init /\ [][Next]_vars

\* the interpreter keeps executing: a status query answers or raises, a sleep
\* returns, the statement after the loop is reached
FairSpec == Spec /\ WF_vars(Next)

TypeOK ==
    /\ prog \in Programs
    /\ nq \in Nat
    /\ ns \in Nat
    /\ wres.ctl \in {"running", "return", "raise"}

----------------------------------------------------------------------------
(* Properties *)

flow == FlowOf(prog)
Ended == wres.ctl # "running"
Elapsed == now - start_time
Ceil(a, b) == (a + b - 1) \div b
Callers == {"lambda_handler", "native_main", "backup_main"}

\* C1: once a status query returns a failure-terminal status ('failed'; FAILED,
\* ABORTED, EXPIRED) the wait has ended with the outcome Failed, and no status
\* query is issued after a failure-terminal response.
C1_FailureEndsWait ==
    /\ (nq > 0 /\ Class(flow, last) = "failure") =>
            (pc # "wait" /\ Outcome(wres) = "Failed")
    /\ "failure" \notin seen

\* C2: a transient error of the status query never ends the wait: after a query
\* that failed transiently the loop has slept and is still polling (only the
\* deadline can end it, as TimedOut), and when transient errors are followed
\* by a success-terminal status the wait returns Completed at that query.
C2_TransientThenSuccess ==
    /\ (nq > 0 /\ Class(flow, last) = "transient") =>
            /\ ns = nq
            /\ Ended => (Outcome(wres) = "TimedOut" /\ ~DeadlineOpen(now, start_time, max_wait_seconds))
    /\ (nq > 0 /\ seen \subseteq {"transient"} /\ Class(flow, last) = "success") =>
            /\ Outcome(wres) = "Completed"
            /\ ns = nq - 1
            /\ qstart < max_wait_seconds

\* C2 witness: error, error, success ended Completed after the third query.
C2_Witness ==
    /\ nq = 3
    /\ seen = {"transient"}
    /\ Class(flow, last) = "success"
    /\ Outcome(wres) = "Completed"

\* C3 as stated: a wait that ended without having observed a terminal status
\* returned its TimedOut outcome as a value and raised nothing.
C3_TimeoutIsAValue ==
    (Ended /\ Observed \cap {"success", "failure"} = {}) =>
        (Outcome(wres) = "TimedOut" /\ wres.ctl = "return")

\* C3 amended: a wait that ended without having observed a terminal status ended
\* at the deadline; the Lambda wait returned False, the native snapshot wait and
\* the backup wait raised their "Timeout waiting for ..." exception.
C3_TimeoutPerFlow ==
    (Ended /\ Observed \cap {"success", "failure"} = {}) =>
        /\ Elapsed >= max_wait_seconds
        /\ Outcome(wres) = "TimedOut"
        /\ flow = "lambda" => wres = Return("False")
        /\ flow = "native" => wres = Raise("Timeout waiting for snapshot completion")
        /\ flow = "backup" => wres = Raise("Timeout waiting for backup completion")

\* C3 witness: the native wait polled twice, saw no terminal status and raised.
C3_Witness ==
    /\ prog = "native_wait"
    /\ nq = 2
    /\ Observed = {"pending"}
    /\ wres = Raise("Timeout waiting for snapshot completion")

\* C4: a wait ends with exactly one of Completed, Failed, TimedOut, it has ended
\* as soon as a query observes a terminal status (success or failure), and no
\* query follows an observed terminal status.
C4_StopsAtFirstTerminal ==
    /\ Ended => Outcome(wres) \in {"Completed", "Failed", "TimedOut"}
    /\ (nq > 0 /\ Class(flow, last) \in {"success", "failure"}) => Ended
    /\ seen \cap {"success", "failure"} = {}

\* what the caller shows when the operation stayed pending until the deadline
PendingVisible(p) ==
    CASE p = "lambda_handler" -> "snapshot_in_progress"
      [] p = "native_main"    -> "Timeout waiting for snapshot completion"
      [] OTHER                -> "Timeout waiting for backup completion"

\* what the caller shows: the result's 'status', or the message main prints
Visible(p) == IF p = "lambda_handler" THEN result.status ELSE report.msg

\* C5: a finished run of a caller in which the snapshot or job was observed in a
\* failure status shows a result different from the one shown when the
\* operation merely stayed pending until the budget ran out.
C5_FailedShownDistinctly ==
    (pc = "done" /\ prog \in Callers /\ "failure" \in Observed) =>
        Visible(prog) # PendingVisible(prog)

\* C6: when the first status query returns a success-terminal status, the wait
\* has returned Completed with the payload of that response (the recovery point
\* ARN in the backup flow), after that one query and without a sleep.
C6_FirstQuerySuccess ==
    (nq = 1 /\ Class(flow, last) = "success") =>
        /\ pc # "wait"
        /\ wres = Return(IF flow = "backup" THEN last.RecoveryPointArn ELSE "True")
        /\ ns = 0
        /\ qstart = 0

\* C6 witness: the backup wait returned the ARN of its first response.
C6_Witness ==
    /\ prog = "backup_wait"
    /\ nq = 1
    /\ ns = 0
    /\ last = JobResp("COMPLETED", "arn:rp-2")
    /\ wres = Return("arn:rp-2")

\* C7 as stated: a permanent failure of the status query (handle not found) has
\* ended the wait with the outcome Failed.
C7_PermanentSurfaced ==
    (nq > 0 /\ Class(flow, last) = "permanent") =>
        (pc # "wait" /\ Outcome(wres) = "Failed")

\* C7 amended: a permanent failure of the status query is handled like any
\* other exception: the loop has slept one interval after it and goes on
\* polling, and a wait that ends after it ends at the deadline, TimedOut.
C7_PermanentRetried ==
    (nq > 0 /\ Class(flow, last) = "permanent") =>
        /\ ns = nq
        /\ Ended => (Outcome(wres) = "TimedOut" /\ Elapsed >= max_wait_seconds)

\* C7 witness: every query failed with not-found and the wait timed out.
C7_Witness ==
    /\ Ended
    /\ nq >= 2
    /\ Observed = {"permanent"}
    /\ Outcome(wres) = "TimedOut"

\* C8: a step taken inside a wait loop issues no cloud call other than the
\* status query, leaves the snapshots of the account and the handle unchanged,
\* and every status query is for that handle.
C8_WaitOnlyReads ==
    [][pc = "wait" =>
         /\ \A op \in Ops \ {StatusOp(flow)} : calls'[op] = calls[op]
         /\ calls'[StatusOp(flow)] = calls[StatusOp(flow)] + (nq' - nq)
         /\ snaps' = snaps
         /\ handle' = handle
         /\ queried' \subseteq {handle}]_vars

\* C8 witness: lambda_handler's wait polled twice and ended; the only mutating
\* call so far is the one create_cluster_snapshot before the wait.
C8_Witness ==
    /\ prog = "lambda_handler"
    /\ pc = "after_wait"
    /\ nq >= 2
    /\ queried = {handle}
    /\ calls["create_cluster_snapshot"] = 1
    /\ calls["describe_cluster_snapshots"] = nq

\* C9: with a status that is pending at every poll the wait ends TimedOut; with
\* interval 30 s and maximum wait 60 s after exactly 2 queries, at elapsed 0 s
\* and 30 s, and with instantaneous queries after ceil(maximum wait / interval).
C9_PendingPollCount ==
    /\ (nq = 1 /\ max_wait_seconds = 60) => qstart = 0
    /\ (Ended /\ Observed \subseteq {"pending"}) =>
            /\ Outcome(wres) = "TimedOut"
            /\ lat = 0 => nq = Ceil(max_wait_seconds, Interval(flow))
            /\ (Interval(flow) = 30 /\ max_wait_seconds = 60) =>
                    (nq = 2 /\ (lat = 0 => qstart = 30))

\* C9 witness: interval 30, maximum wait 60, always pending: 2 queries, TimedOut.
C9_Witness ==
    /\ prog = "native_wait"
    /\ max_wait_seconds = 60
    /\ lat = 0
    /\ Ended
    /\ Observed = {"pending"}
    /\ nq = 2
    /\ Outcome(wres) = "TimedOut"

\* C10: with interval 30 s and maximum wait 90 s, after two pending responses
\* a third poll is due at an elapsed time of at least 60 s, and with the
\* responses pending, pending, available the wait returns Completed after
\* exactly 3 queries at an elapsed time between 60 s and 90 s.
C10_ThirdPollCompletes ==
    (flow \in {"lambda", "native"} /\ max_wait_seconds = 90) =>
        /\ (nq = 2 /\ pc = "wait" /\ Observed = {"pending"}) =>
                (Elapsed >= 60 /\ DeadlineOpen(now, start_time, max_wait_seconds))
        /\ (nq = 3 /\ seen = {"pending"} /\ Class(flow, last) = "success") =>
                /\ Outcome(wres) = "Completed"
                /\ ns = 2
                /\ Elapsed >= 60
                /\ Elapsed <= 90

\* C10 witness: pending, pending, available ended Completed at the third query.
C10_Witness ==
    /\ prog = "native_wait"
    /\ max_wait_seconds = 90
    /\ nq = 3
    /\ seen = {"pending"}
    /\ Class(flow, last) = "success"
    /\ Outcome(wres) = "Completed"
    /\ Elapsed >= 60

IntervalSeconds == IF flow = "backup" THEN BackupSleep ELSE SnapshotSleep

\* C11 as stated: with a maximum wait below the interval the wait ended TimedOut
\* after at most one status query, whatever that query observed.
C11_ShortBudgetTimesOut ==
    (Ended /\ max_wait_seconds < IntervalSeconds) =>
        (Outcome(wres) = "TimedOut" /\ nq <= 1)

\* C11 amended: with a maximum wait below the interval the wait issues at most
\* one status query, and none with a maximum wait of 0; it ends Completed when
\* that query observed a success-terminal status and TimedOut in every other
\* case.
C11_ShortBudgetOneQuery ==
    max_wait_seconds < IntervalSeconds =>
        /\ nq <= 1
        /\ max_wait_seconds <= 0 => nq = 0
        /\ (Ended /\ "success" \in Observed) => Outcome(wres) = "Completed"
        /\ (Ended /\ "success" \notin Observed) => Outcome(wres) = "TimedOut"

\* C11 witness: a 20 s budget, the one query answered 'available', Completed.
C11_Witness ==
    /\ prog = "native_wait"
    /\ max_wait_seconds = 20
    /\ nq = 1
    /\ Observed = {"success"}
    /\ Outcome(wres) = "Completed"

\* C12: a second wait on a handle whose status was terminal during the first
\* wait and is the same during the second ends like the first: both Completed
\* for a success-terminal status, both Failed for a failure-terminal status.
C12_SameOutcomeTwice ==
    \A c \in {"success", "failure"} :
        (prev.n >= 1 /\ Ended /\ prev.observed = c /\ Observed = {c}) =>
            /\ Outcome(wres) = prev.outcome
            /\ Outcome(wres) = (IF c = "success" THEN "Completed" ELSE "Failed")

\* C13: every wait terminates after a bounded number of iterations: whatever
\* the status queries answer, a wait never issues more than
\* ceil(maximum wait / interval) queries, and a wait that is running
\* eventually reaches an outcome.
C13_WaitTerminates ==
    /\ [](nq <= Ceil(max_wait_seconds, IntervalSeconds))
    /\ (pc = "wait") ~> (pc = "after_wait" /\ Ended)

\* C13 witness: a wait that ended at its deadline after failure statuses and
\* errors only, having used every iteration its budget allows.
C13_Witness ==
    /\ pc = "after_wait"
    /\ Outcome(wres) = "TimedOut"
    /\ nq >= 2
    /\ nq = Ceil(max_wait_seconds, IntervalSeconds)
    /\ Observed \subseteq {"failure", "transient", "permanent"}
    /\ "failure" \in Observed
    /\ Observed \cap {"transient", "permanent"} # {}

\* C14: one fixed interval, no backoff: when a wait issues a second or later
\* status query, it has slept exactly once per earlier query, and the query
\* starts one query latency plus one interval (30 s snapshot flows, 60 s backup
\* flow) after the start of the previous one, whether that one answered a
\* pending status, an empty result, a failure status or an error.
C14_FixedInterval ==
    [][(pc = "wait" /\ nq >= 1 /\ nq' = nq + 1) =>
          /\ ns = nq
          /\ qstart' - qstart = lat + IntervalSeconds
          /\ Class(flow, last) \in {"pending", "empty", "transient", "permanent", "failure"}]_vars

\* C14 witness: a fourth query of a snapshot wait, 90 s plus three latencies
\* after the first, following a pending answer, an empty result and an error.
C14_Witness ==
    /\ flow = "native"
    /\ nq = 4
    /\ ns >= 3
    /\ qstart = 3 * (SnapshotSleep + lat)
    /\ {"pending", "empty", "transient"} \subseteq seen

\* C15: a failed submission is not retried and not followed by polling: when
\* create_cluster_snapshot (Lambda handler, native demo) or start_backup_job
\* (backup demo) raised, the run is over with the error surfaced (statusCode
\* 500, "Demo failed"), the submission was called exactly once, and no status
\* query was issued.
C15_FailedSubmissionOnce ==
    /\ (prog = "lambda_handler" /\ result.error = "create_cluster_snapshot failed") =>
          /\ pc = "done"
          /\ result.statusCode = 500
          /\ calls["create_cluster_snapshot"] = 1
          /\ calls["describe_cluster_snapshots"] = 0 /\ nq = 0
    /\ (prog = "native_main" /\ report.msg = "create_cluster_snapshot failed") =>
          /\ pc = "done"
          /\ report.printed = "Demo failed"
          /\ calls["create_cluster_snapshot"] = 1
          /\ calls["describe_cluster_snapshots"] = 0 /\ nq = 0
    /\ (prog = "backup_main" /\ report.msg = "start_backup_job failed") =>
          /\ pc = "done"
          /\ report.printed = "Demo failed"
          /\ calls["start_backup_job"] = 1
          /\ calls["describe_backup_job"] = 0 /\ nq = 0

\* C15 witness: the backup demo ended by a start_backup_job that raised.
C15_Witness ==
    /\ prog = "backup_main"
    /\ pc = "done"
    /\ report.msg = "start_backup_job failed"
    /\ calls["start_backup_job"] = 1
    /\ nq = 0

\* C16: lambda_handler requires target_account_id: once the handler has read
\* an event whose target_account_id is missing or empty, it has returned
\* statusCode 500 with the error 'target_account_id is required', and it has
\* made no snapshot creation, sharing or deletion call.
C16_TargetAccountRequired ==
    (prog = "lambda_handler" /\ pc # "start"
       /\ event.target_account_id \in {<<>>, <<"">>}) =>
        /\ pc = "done"
        /\ result.statusCode = 500
        /\ result.error = "target_account_id is required"
        /\ \A op \in MutatingOps : calls[op] = 0
        /\ snaps = ExistingSnapshots
        /\ delete_requests = {}

\* C16 witness: the handler returned 500 for an event whose target_account_id
\* is the empty string.
C16_Witness ==
    /\ prog = "lambda_handler"
    /\ pc = "done"
    /\ event.target_account_id = <<"">>
    /\ result.statusCode = 500
    /\ result.error = "target_account_id is required"

\* the cutoff of a cleanup that ran at time t with the event's retention_days
CutoffTime(t) == t - EventGet(event.retention_days, DefaultRetentionDays) * 24 * 3600

\* the snapshots that exist or existed during a run of lambda_handler
KnownSnapshots ==
    ExistingSnapshots \cup
        (IF handle = <<>> THEN {} ELSE {[id |-> handle, ctime |-> handle[2]]})

\* C17: cleanup_old_snapshots deletes only Lambda-created snapshots past
\* retention: every snapshot delete_cluster_snapshot was called on has the
\* prefix 'aca-lambda-snapshot-' and a creation time strictly before the cutoff
\* (the time of the cleanup minus retention_days), and every snapshot with
\* another prefix or a creation time at or after the cutoff still exists.
C17_CleanupOnlyOldLambdaSnapshots ==
    (prog = "lambda_handler" /\ pc = "done") =>
        /\ \A s \in delete_requests :
              /\ s.id[1] = "aca-lambda-snapshot-"
              /\ s.ctime < CutoffTime(now)
        /\ \A s \in KnownSnapshots :
              (s.id[1] # "aca-lambda-snapshot-" \/ s.ctime >= CutoffTime(now)) => s \in snaps

\* C17 witness: a cleanup with the default retention deleted the 8 days old
\* Lambda snapshot and left the 9 days old demo snapshot and the snapshot
\* created in this run.
C17_Witness ==
    /\ prog = "lambda_handler"
    /\ pc = "done"
    /\ event.retention_days = <<>>
    /\ Cardinality(delete_requests) = 1
    /\ result.cleaned_up_snapshots = 1
    /\ Cardinality(snaps) = 2
    /\ \E s \in snaps : s.id[1] = DemoPrefix
    /\ \E s \in snaps : s.id = handle

\* C18: the dashboard runs the cleanup only on the exact confirmation text:
\* every run of the page that executes run_cleanup has the text input equal
\* to exactly 'DELETE', and a click with any other text shows the request to
\* type 'DELETE' instead.
C18_CleanupNeedsDelete ==
    [][/\ cleanup_runs' # cleanup_runs => confirm_text' = "DELETE"
       /\ report'.printed = "Cleanup Progress" => confirm_text' = "DELETE"]_vars

\* C18 witness: the cleanup has run, and a later click with the text 'delete'
\* was refused.
C18_Witness ==
    /\ prog = "show_cleanup"
    /\ cleanup_runs = 1
    /\ confirm_text = "delete"
    /\ report.printed = "Please type 'DELETE' to confirm"

\* the wait loop run alone on the responses hist, from query k + 1 at time t:
\* its ending and its number of queries (Running when hist ends first)
RECURSIVE RunAlone(_, _, _, _, _, _)
RunAlone(f, hist, k, t, start, max) ==
    IF ~DeadlineOpen(t, start, max) THEN [wres |-> AfterLoop(f), nq |-> k]
    ELSE IF k >= Len(hist) THEN [wres |-> Running, nq |-> k]
    ELSE LET it == Iteration(f, hist[k + 1])
         IN  IF it.ctl = "sleep"
             THEN RunAlone(f, hist, k + 1, t + lat + SleepSeconds(f, k), start, max)
             ELSE [wres |-> it, nq |-> k + 1]

\* C19: interleaved waits are independent: each of two interleaved waits on
\* different handles ends with the outcome and the number of queries that
\* the same wait has when it runs alone from the time of its call and is
\* given the same responses.
C19_InterleavedAsAlone ==
    \A i \in DOMAIN pair :
        pair[i].pc = "done" =>
            LET r == pair[i]
                alone == RunAlone(r.flow, r.hist, 0, r.t0, r.t0, r.max)
            IN  /\ r.wres = alone.wres
                /\ r.nq = alone.nq

\* C19 witness: the snapshot wait timed out after two queries although the
\* backup wait, called 10 s later, was entered while it ran and completed.
C19_Witness ==
    /\ prog = "two_waits"
    /\ \A i \in DOMAIN pair : pair[i].pc = "done"
    /\ pair[2].t0 = 10
    /\ Outcome(pair[1].wres) = "TimedOut" /\ pair[1].nq = 2
    /\ Outcome(pair[2].wres) = "Completed" /\ pair[2].nq = 2

\* C20 as stated: a wait entered with its default maximum wait sleeps 30 s
\* (snapshot flows) or 60 s (backup flow) and has a maximum wait between 10
\* and 30 minutes.
C20_DefaultsWithinHalfHour ==
    (pc = "wait" /\ defaulted) =>
        /\ Interval(flow) = (IF flow = "backup" THEN 60 ELSE 30)
        /\ 10 * 60 <= max_wait_seconds
        /\ max_wait_seconds <= 30 * 60

\* C20 amended: the interval is 30 s in the snapshot flows and 60 s in the
\* backup flow; the default maximum wait is 15 minutes in the Lambda wait
\* (lambda_handler passes 10 minutes), 30 minutes in the native wait and 60
\* minutes in the backup wait.
C20_DefaultsPerFlow ==
    /\ (pc = "wait" /\ defaulted) =>
          /\ Interval(flow) = (IF flow = "backup" THEN 60 ELSE 30)
          /\ max_wait_seconds = (CASE flow = "lambda" -> 15 * 60
                                   [] flow = "native" -> 30 * 60
                                   [] OTHER           -> 60 * 60)
    /\ (pc = "wait" /\ prog = "lambda_handler") => (~defaulted /\ max_wait_seconds = 10 * 60)
    /\ (pc = "wait" /\ prog \in {"native_main", "backup_main"}) => defaulted

\* C20 witness: the backup demo inside its wait with the default of 3600 s,
\* about to issue its third query two minutes after the first.
C20_Witness ==
    /\ prog = "backup_main"
    /\ pc = "wait"
    /\ defaulted
    /\ max_wait_seconds = 3600
    /\ nq = 2
    /\ Elapsed = 2 * (60 + lat)

\* C21: no status query once the budget is exhausted: every status query of
\* a wait starts at an elapsed time strictly below the maximum wait (the
\* deadline is tested before each query), and a wait with a maximum wait of
\* 0 issues no query.
C21_NoQueryAfterBudget ==
    [][nq' = nq + 1 =>
          /\ pc = "wait"
          /\ now - start_time < max_wait_seconds
          /\ max_wait_seconds > 0
          /\ qstart' = now - start_time]_vars

\* C21 witness: a wait whose budget ran out during the sleep after its second
\* query and which ended TimedOut without a third.
C21_Witness ==
    /\ pc = "after_wait"
    /\ Outcome(wres) = "TimedOut"
    /\ nq = 2
    /\ qstart < max_wait_seconds
    /\ Elapsed >= max_wait_seconds
    /\ Elapsed = 2 * (IntervalSeconds + lat)

\* C22: lambda_handler shares the snapshot only after it was observed
\* available: authorize_snapshot_access has been called (at most once) only
\* in a run with wait_for_completion true whose wait queried the created
\* snapshot and ended on the answer 'available'; with wait_for_completion
\* false, or after a wait that timed out, it has not been called.
C22_ShareOnlyAfterAvailable ==
    prog = "lambda_handler" =>
        /\ calls["authorize_snapshot_access"] <= 1
        /\ calls["authorize_snapshot_access"] = 1 =>
              /\ event.wait_for_completion
              /\ handle \in queried
              /\ last.Snapshots # <<>> /\ last.Snapshots[1].Status = "available"
              /\ Outcome(wres) = "Completed"
        /\ (~event.wait_for_completion \/ Outcome(wres) = "TimedOut") =>
              calls["authorize_snapshot_access"] = 0

\* C22 witness: the handler shared the snapshot after a wait whose third query
\* answered 'available'.
C22_Witness ==
    /\ prog = "lambda_handler"
    /\ calls["authorize_snapshot_access"] = 1
    /\ nq = 3
    /\ last.Snapshots # <<>> /\ last.Snapshots[1].Status = "available"
    /\ result.status = "completed_and_shared"

\* C23: every statusCode-200 result of lambda_handler has exactly one of four
\* statuses: 'snapshot_initiated_async' iff wait_for_completion is false,
\* 'completed_and_shared' iff it waited, saw the snapshot available and the
\* share succeeded, 'completed_not_shared' iff it waited, saw the snapshot
\* available and the share failed, 'snapshot_in_progress' iff it waited and
\* the 10 minutes ran out; 'snapshot_initiated' is never returned, and
\* 'shared' is present exactly in the two completed cases.
C23_ReturnedStatus ==
    (prog = "lambda_handler" /\ pc = "done" /\ result.statusCode = 200) =>
        LET waited == event.wait_for_completion
        IN  /\ result.status \in {"snapshot_initiated_async", "completed_and_shared",
                                  "completed_not_shared", "snapshot_in_progress"}
            /\ result.status = "snapshot_initiated_async" <=> ~waited
            /\ result.status = "completed_and_shared" <=>
                  (waited /\ Outcome(wres) = "Completed" /\ result.shared = "True")
            /\ result.status = "completed_not_shared" <=>
                  (waited /\ Outcome(wres) = "Completed" /\ result.shared = "False")
            /\ result.status = "snapshot_in_progress" <=>
                  (waited /\ Outcome(wres) = "TimedOut" /\ max_wait_seconds = 10 * 60)
            /\ result.shared # "absent" <=>
                  result.status \in {"completed_and_shared", "completed_not_shared"}

\* C23 witness: a 200 result 'completed_not_shared' carrying shared = False.
C23_Witness ==
    /\ prog = "lambda_handler"
    /\ pc = "done"
    /\ result.statusCode = 200
    /\ result.status = "completed_not_shared"
    /\ result.shared = "False"
    /\ calls["authorize_snapshot_access"] = 1

\* C24: lambda_handler turns a failure of the constructor or of the snapshot
\* creation into a returned value: the run is over with statusCode 500 and
\* the error text, and neither sharing nor cleanup_old_snapshots was
\* executed; a run in which sharing or the cleanup was executed, failing or
\* not, returns statusCode 200.
C24_FailuresReturned ==
    prog = "lambda_handler" =>
        /\ result.error \in {"get_caller_identity failed", "create_cluster_snapshot failed"} =>
              /\ pc = "done"
              /\ result.statusCode = 500
              /\ calls["authorize_snapshot_access"] = 0
              /\ calls["describe_cluster_snapshots"] = 0
              /\ calls["delete_cluster_snapshot"] = 0
              /\ result.cleaned_up_snapshots = -1
              /\ delete_requests = {}
        /\ (pc = "done" /\ (result.shared # "absent" \/ result.cleaned_up_snapshots # -1)) =>
              /\ result.statusCode = 200
              /\ result.error = ""

\* C24 witness: the constructor raised; 500 returned, nothing created.
C24_Witness ==
    /\ prog = "lambda_handler"
    /\ pc = "done"
    /\ result.statusCode = 500
    /\ result.error = "get_caller_identity failed"
    /\ calls["get_caller_identity"] = 1
    /\ calls["create_cluster_snapshot"] = 0

\* C25: the cleanup of a lambda_handler invocation never deletes the snapshot
\* the same invocation created: once created, that snapshot exists for the
\* rest of the run and delete_cluster_snapshot is never called on it,
\* whatever retention_days (0 or more) the event carries and whether or not
\* the handler waited.
C25_CreatedSnapshotKept ==
    (prog = "lambda_handler" /\ handle # <<>>) =>
        /\ \E s \in snaps : s.id = handle
        /\ \A s \in delete_requests : s.id # handle

\* C26: cleanup_old_snapshots tolerates single deletion failures: when the
\* listing succeeded, delete_cluster_snapshot was called on every eligible
\* snapshot, whichever of these calls raised, and the returned count is the
\* number of snapshots actually deleted; when the listing raised, no delete
\* call was made, nothing was deleted and the count is 0.
C26_CleanupToleratesFailures ==
    (prog = "lambda_handler" /\ pc = "done" /\ result.cleaned_up_snapshots # -1) =>
        LET eligible == {s \in KnownSnapshots : /\ s.id[1] = "aca-lambda-snapshot-"
                                                 /\ s.ctime < CutoffTime(now)}
            gone == KnownSnapshots \ snaps
        IN  /\ delete_requests \in {eligible, {}}
            /\ calls["delete_cluster_snapshot"] = Cardinality(delete_requests)
            /\ gone \subseteq delete_requests
            /\ result.cleaned_up_snapshots = Cardinality(gone)
            /\ result.statusCode = 200

\* C26 witness: two eligible snapshots, both delete calls made, one raised:
\* the count is 1.
C26_Witness ==
    /\ prog = "lambda_handler"
    /\ pc = "done"
    /\ Cardinality(delete_requests) = 2
    /\ calls["delete_cluster_snapshot"] = 2
    /\ Cardinality(delete_requests \cap snaps) = 1
    /\ result.cleaned_up_snapshots = 1

\* C27: in the native demo's main the restore uses a shared snapshot:
\* restore_from_cluster_snapshot has been called only in a run whose
\* share_snapshot_with_account succeeded, and 'Demo completed successfully'
\* is printed only when create, share and restore all succeeded.
C27_RestoreUsesSharedSnapshot ==
    prog = "native_main" =>
        /\ calls["restore_from_cluster_snapshot"] >= 1 => report.shared = "True"
        /\ report.printed = "Demo completed successfully" =>
              /\ Outcome(wres) = "Completed"
              /\ report.shared = "True"
              /\ report.restored = "True"

\* a status response that is neither success nor failure
NonTerminal(f, resp) ==
    /\ resp.kind = "ok"
    /\ IF f = "backup"
       THEN resp.State \notin {"COMPLETED", "FAILED", "ABORTED", "EXPIRED"}
       ELSE resp.Snapshots = <<>> \/ resp.Snapshots[1].Status \notin {"available", "failed"}

\* C28: a status response that is neither success nor failure is treated as
\* still pending: a query answered with an empty 'Snapshots' list or a status
\* other than 'available'/'failed' (snapshot flows), or with a state other
\* than COMPLETED/FAILED/ABORTED/EXPIRED (backup flow), is followed by one
\* sleep of the interval with the wait still running, and a wait that saw
\* only such responses ended TimedOut.
C28_NonTerminalIsPending ==
    /\ [][(pc = "wait" /\ nq' = nq + 1 /\ NonTerminal(flow, last')) =>
             /\ pc' = "wait"
             /\ wres' = Running
             /\ ns' = ns + 1
             /\ now' = now + lat + IntervalSeconds]_vars
    /\ []((Ended /\ nq >= 1 /\ Observed \subseteq {"pending", "empty"}) =>
             Outcome(wres) = "TimedOut")

\* C28 witness: a snapshot wait that timed out after three queries answered
\* with an empty list and with statuses other than 'available'/'failed',
\* the last of them 'final snapshot'.
C28_Witness ==
    /\ flow \in {"lambda", "native"}
    /\ Ended
    /\ Outcome(wres) = "TimedOut"
    /\ nq = 3
    /\ Observed = {"pending", "empty"}
    /\ last.Snapshots # <<>> /\ last.Snapshots[1].Status = "final snapshot"

====
